---- MODULE Spec2Model ----
(***************************************************************************)
(* Model of index.js of the CSV cleaner: the hand-written CSV column       *)
(* extractor and the three batch pipelines                                 *)
(*   "tokens"  -> processWallets   (one file, token_address column)        *)
(*   "wallets" -> processTokens    (many files, wallet_address, dedup)     *)
(*   "merge"   -> mergeCSVFiles    (many files, line concatenation)        *)
(*                                                                         *)
(* Text is a sequence of atoms.  An atom is one character of the source    *)
(* text; the special characters are single atoms ("," "\"" "\\" "\n" " "), *)
(* and a run of ordinary characters that the code never looks inside (a    *)
(* word such as wallet_address or 0x1) is written as one atom, because     *)
(* every ordinary character takes the same branch of the scanner.  File    *)
(* names are sequences of atoms too, the extension being one atom.         *)
(***************************************************************************)
EXTENDS Integers, Sequences, FiniteSets, TLC

VARIABLES
    option,              \* process.argv[2], lower-cased
    pc,                  \* position of the running pipeline
    dirExists,           \* fs.existsSync of the pipeline's directory
    disk,                \* the pipeline's directory: file name -> text
    listing,             \* fs.readdirSync order of that directory
    source,              \* the table tokens.csv was written from (input provenance)
    csvFiles,            \* const csvFiles
    fi,                  \* position of "for (const csvFile of csvFiles)", 1-based
    addresses,           \* result of the last extraction
    ai,                  \* position of "for (const address of addresses)", 1-based
    allWalletAddresses,  \* const allWalletAddresses
    addressSet,          \* const addressSet
    duplicateCount,      \* let duplicateCount
    mergedData,          \* let mergedData
    headers,             \* let headers
    headerLine,          \* let headerLine
    fileName,            \* the callback's fileName, after defaulting and suffixing
    addressChunks,       \* const addressChunks
    ci,                  \* position of the chunk writing loop, 1-based
    di,                  \* position of the source removal loop, 1-based
    written,             \* names given to fs.writeFileSync calls that returned, in order
    deleted,             \* names given to fs.unlinkSync calls that returned, in order
    readOk,              \* csvFiles positions whose read returned
    log,                 \* console messages, as tags, in order
    rlClosed             \* rl.close() was called

vars == <<option, pc, dirExists, disk, listing, source, csvFiles, fi, addresses, ai,
          allWalletAddresses, addressSet, duplicateCount, mergedData, headers,
          headerLine, fileName, addressChunks, ci, di, written, deleted, readOk,
          log, rlClosed>>

----------------------------------------------------------------------------
(* Bounds of the model *)

\* rows of the table tokens.csv is written from
MaxRows == 2
\* characters of all the values of that table's target column together
MaxChars == 3
\* data lines of all the files of the wallets directory together
MaxWalletLines == 3
\* lines of one file of the merge directory
MaxMergeLines == 3
\* stands for the 39000 of "const chunkSize = 39000", scaled to the model
chunkSize == 2

----------------------------------------------------------------------------
(* Characters and JavaScript string primitives *)

Comma == ","
Quote == "\""
Backslash == "\\"
Newline == "\n"
Space == " "
Whitespace == {Space, "\t", "\r"}

SeqsUpTo(S, n) == UNION {[1..k -> S] : k \in 0..n}

RECURSIVE SplitFrom(_, _, _, _)
SplitFrom(text, sep, j, cur) ==
    IF j > Len(text) THEN <<cur>>
    ELSE IF text[j] = sep THEN <<cur>> \o SplitFrom(text, sep, j + 1, <<>>)
    ELSE SplitFrom(text, sep, j + 1, Append(cur, text[j]))

\* String.prototype.split(sep): "" gives [""], "a\n" gives ["a", ""]
split(text, sep) == SplitFrom(text, sep, 1, <<>>)

RECURSIVE join(_, _)
\* Array.prototype.join(sep)
join(parts, sep) ==
    IF parts = <<>> THEN <<>>
    ELSE IF Len(parts) = 1 THEN parts[1]
    ELSE parts[1] \o <<sep>> \o join(Tail(parts), sep)

RECURSIVE trimStart(_)
trimStart(s) ==
    IF s # <<>> /\ Head(s) \in Whitespace THEN trimStart(Tail(s)) ELSE s

RECURSIVE trimEnd(_)
trimEnd(s) ==
    IF s # <<>> /\ s[Len(s)] \in Whitespace
    THEN trimEnd(SubSeq(s, 1, Len(s) - 1)) ELSE s

\* String.prototype.trim()
trim(s) == trimEnd(trimStart(s))

\* String.prototype.endsWith(ext), ext one atom
endsWith(name, ext) == name # <<>> /\ name[Len(name)] = ext

RECURSIVE findIndexFrom(_, _, _)
findIndexFrom(cells, name, j) ==
    IF j > Len(cells) THEN -1
    ELSE IF trim(cells[j]) = <<name>> THEN j - 1
    ELSE findIndexFrom(cells, name, j + 1)

\* header.findIndex(col => col.trim() === name), zero-based, -1 when absent
findIndex(cells, name) == findIndexFrom(cells, name, 1)

----------------------------------------------------------------------------
(* The column extractor: extractTokenAddresses / extractWalletAddresses *)

\* currentField.replace(/^"(.*)"$/, '$1')
stripQuotes(field) ==
    IF Len(field) >= 2 /\ field[1] = Quote /\ field[Len(field)] = Quote
    THEN SubSeq(field, 2, Len(field) - 1)
    ELSE field

\* (mutant) the value is pushed without the test for emptiness
pushClean_KeepEmpty(out, field) == Append(out, stripQuotes(field))

\* if (cleanAddress) { out.push(cleanAddress) }
pushClean(out, field) ==
    LET cleanAddress == stripQuotes(field)
    IN  IF cleanAddress # <<>> THEN Append(out, cleanAddress) ELSE out

\* the comparison "fieldIndex === tokenAddressIndex" guarding each push
emitIfTarget(out, field, fieldIndex, target) ==
    IF fieldIndex = target THEN pushClean(out, field) ELSE out

\* (mutant) the doubled quote is not recognised: every quote toggles inQuotes
isDoubledQuote_Never(inQuotes, nextIsQuote) == FALSE

\* the branch "inQuotes && nextChar === '\"'": a doubled quote inside quotes
isDoubledQuote(inQuotes, nextIsQuote) == inQuotes /\ nextIsQuote

\* (mutant) the backslash is an ordinary character and the quote after it toggles
isEscapedQuote_Never(char, nextIsQuote) == FALSE

\* the branch "char === '\\' && nextChar === '\"'": an escaped quote
isEscapedQuote(char, nextIsQuote) == char = Backslash /\ nextIsQuote

RECURSIVE scanLine(_, _, _, _, _, _, _)
\* the character loop over one trimmed line, then "Handle the last field"
scanLine(line, j, inQuotes, currentField, fieldIndex, out, target) ==
    IF j > Len(line)
    THEN emitIfTarget(out, currentField, fieldIndex, target)
    ELSE
      LET char == line[j]
          nextIsQuote == j + 1 <= Len(line) /\ line[j + 1] = Quote
      IN  IF isEscapedQuote(char, nextIsQuote)
          THEN scanLine(line, j + 2, inQuotes, Append(currentField, Quote),
                        fieldIndex, out, target)
          ELSE IF char = Quote
          THEN IF isDoubledQuote(inQuotes, nextIsQuote)
               THEN scanLine(line, j + 2, inQuotes, Append(currentField, Quote),
                             fieldIndex, out, target)
               ELSE scanLine(line, j + 1, ~inQuotes, currentField,
                             fieldIndex, out, target)
          ELSE IF char = Comma /\ ~inQuotes
          THEN scanLine(line, j + 1, inQuotes, <<>>, fieldIndex + 1,
                        emitIfTarget(out, currentField, fieldIndex, target), target)
          ELSE scanLine(line, j + 1, inQuotes, Append(currentField, char),
                        fieldIndex, out, target)

RECURSIVE scanLines(_, _, _, _)
\* for (let i = 1; i < lines.length; i++): trim, skip the empty line, scan
scanLines(lines, i, out, target) ==
    IF i > Len(lines) THEN out
    ELSE LET line == trim(lines[i])
         IN  IF line = <<>> THEN scanLines(lines, i + 1, out, target)
             ELSE scanLines(lines, i + 1,
                            scanLine(line, 1, FALSE, <<>>, 0, out, target), target)

\* the body of the readFile callback: rejected when the column is absent
extractColumn(data, column) ==
    LET lines == split(data, Newline)
        header == split(lines[1], Comma)
        index == findIndex(header, column)
    IN  IF index = -1
        THEN [ok |-> FALSE, values |-> <<>>]
        ELSE [ok |-> TRUE, values |-> scanLines(lines, 2, <<>>, index)]

extractTokenAddresses(data) == extractColumn(data, "token_address")
extractWalletAddresses(data) == extractColumn(data, "wallet_address")

----------------------------------------------------------------------------
(* File system and console primitives *)

\* fs.writeFileSync(path, text): creates or replaces the file
writeFile(d, name, text) ==
    [n \in (DOMAIN d) \cup {name} |-> IF n = name THEN text ELSE d[n]]

\* fs.unlinkSync(path)
unlink(d, name) == [n \in (DOMAIN d) \ {name} |-> d[n]]

\* file.toLowerCase().endsWith('.csv')
isCsvName(name) == endsWith(name, ".csv") \/ endsWith(name, ".CSV")

\* if (!fileName) fileName = dflt; if (!fileName.endsWith(ext)) fileName += ext
normalizeName(input, dflt, ext) ==
    LET named == IF input = <<>> THEN <<dflt>> ELSE input
    IN  IF endsWith(named, ext) THEN named ELSE Append(named, ext)

TokensCsv == <<"tokens", ".csv">>

----------------------------------------------------------------------------
(* Inputs of the "tokens" run: tokens.csv as a CSV writer produces it *)

ValueChars == {"x", Comma, Quote, Space}

\* every string over S of exactly n characters
StringsOfLen(S, n) == [1..n -> S]

RECURSIVE ColumnsWithin(_, _)
\* columns of at most n values whose lengths sum to at most budget
ColumnsWithin(n, budget) ==
    IF n = 0 THEN {<<>>}
    ELSE {<<>>} \cup
         UNION { UNION { { <<v>> \o rest : rest \in ColumnsWithin(n - 1, budget - k) }
                         : v \in StringsOfLen(ValueChars, k) }
                 : k \in 0..budget }

\* a table of two columns: the target column holds cells[i] in row i, the other
\* column a row identifier; pos is the target's zero-based position
Tables ==
    [cells : ColumnsWithin(MaxRows, MaxChars),
     pos : {0, 1}, quoteAll : BOOLEAN, trailingNewline : BOOLEAN]

\* the identifier of row i: plain in odd rows, holding a comma in even rows
rowId(i) == IF i % 2 = 1 THEN <<"1">> ELSE <<"2", Comma, "2">>

needsQuotes(v) ==
    \/ \E i \in 1..Len(v) : v[i] \in {Comma, Quote, Newline}
    \/ v # <<>> /\ (v[1] \in Whitespace \/ v[Len(v)] \in Whitespace)

RECURSIVE doubleQuotes(_)
doubleQuotes(v) ==
    IF v = <<>> THEN <<>>
    ELSE (IF Head(v) = Quote THEN <<Quote, Quote>> ELSE <<Head(v)>>)
         \o doubleQuotes(Tail(v))

\* one field as a CSV writer emits it: wrapped in quotes, inner quotes doubled,
\* when it has to be (or always, under quoteAll)
encodeField(v, quoteAll) ==
    IF quoteAll \/ needsQuotes(v)
    THEN <<Quote>> \o doubleQuotes(v) \o <<Quote>>
    ELSE v

encodeRow(t, column, i) ==
    LET target == encodeField(t.cells[i], t.quoteAll)
        other == encodeField(rowId(i), t.quoteAll)
    IN  IF t.pos = 0 THEN target \o <<Comma>> \o other
        ELSE other \o <<Comma>> \o target

encodeTable(t, column) ==
    LET head == IF t.pos = 0 THEN <<column, Comma, "id">> ELSE <<"id", Comma, column>>
        body == [i \in 1..Len(t.cells) |-> encodeRow(t, column, i)]
    IN  join(<<head>> \o body, Newline)
        \o (IF t.trailingNewline THEN <<Newline>> ELSE <<>>)

\* tokens.csv as other exporters write it: quotes escaped with a backslash,
\* rows cut short, a quote left open
EscapedQuote == <<Backslash, Quote>>
Items == { <<"x">>, EscapedQuote }
Shapes == {"plain", "quoted", "open", "short"}

RECURSIVE RawRowsWithin(_, _)
\* at most n rows whose target fields hold at most budget items together
RawRowsWithin(n, budget) ==
    IF n = 0 THEN {<<>>}
    ELSE {<<>>} \cup
         UNION { UNION { { <<[items |-> v, shape |-> sh]>> \o rest :
                             sh \in Shapes, rest \in RawRowsWithin(n - 1, budget - k) }
                         : v \in StringsOfLen(Items, k) }
                 : k \in 0..budget }

\* the target field of each row and the target's zero-based position; the
\* other column holds "1"
RawTables == [rows : RawRowsWithin(MaxRows, MaxChars), pos : {0, 1}]

RECURSIVE concat(_)
concat(seqs) == IF seqs = <<>> THEN <<>> ELSE Head(seqs) \o concat(Tail(seqs))

\* the target field as written: bare, wrapped in quotes, or with the closing
\* quote missing
rawField(row) ==
    IF row.shape = "quoted" THEN <<Quote>> \o concat(row.items) \o <<Quote>>
    ELSE IF row.shape = "open" THEN <<Quote>> \o concat(row.items)
    ELSE concat(row.items)

\* a short row stops after its first field
rawLine(row, pos) ==
    IF row.shape = "short"
    THEN IF pos = 0 THEN rawField(row) ELSE <<"1">>
    ELSE IF pos = 0 THEN rawField(row) \o <<Comma, "1">>
         ELSE <<"1", Comma>> \o rawField(row)

rawText(t, column) ==
    LET head == IF t.pos = 0 THEN <<column, Comma, "id">> ELSE <<"id", Comma, column>>
        body == [i \in 1..Len(t.rows) |-> rawLine(t.rows[i], t.pos)]
    IN  join(<<head>> \o body, Newline)

\* files that are not such a table: empty, or without the column
NoTable == [cells |-> <<>>, pos |-> -1, quoteAll |-> FALSE, trailingNewline |-> FALSE]
ForeignTexts == { <<>>, <<"id", Comma, "name", Newline, "1", Comma, "x">> }

\* what the user types at the prompt of the tokens and wallets runs
TxtInputs ==
    { <<>>, <<"out">>, <<"out", ".txt">>, <<"my", ".txt", "list">>, <<"tokens", ".csv">> }

----------------------------------------------------------------------------
(* Initial states *)

\* the variables a pipeline has not touched yet
Fresh ==
    /\ pc = "start"
    /\ csvFiles = <<>>
    /\ fi = 1
    /\ addresses = <<>>
    /\ ai = 1
    /\ allWalletAddresses = <<>>
    /\ addressSet = {}
    /\ duplicateCount = 0
    /\ mergedData = <<>>
    /\ headers = <<>>
    /\ headerLine = <<>>
    /\ fileName = <<>>
    /\ addressChunks = <<>>
    /\ ci = 1
    /\ di = 1
    /\ written = <<>>
    /\ deleted = <<>>
    /\ readOk = {}
    /\ log = <<>>
    /\ rlClosed = FALSE

InitTokens ==
    /\ option = "tokens"
    /\ dirExists = TRUE
    /\ \/ /\ source \in Tables
          /\ disk = [n \in {TokensCsv} |-> encodeTable(source, "token_address")]
          /\ listing = <<TokensCsv>>
       \/ /\ source \in RawTables
          /\ disk = [n \in {TokensCsv} |-> rawText(source, "token_address")]
          /\ listing = <<TokensCsv>>
       \/ /\ source = NoTable
          /\ \/ \E text \in ForeignTexts :
                  /\ disk = [n \in {TokensCsv} |-> text]
                  /\ listing = <<TokensCsv>>
             \/ /\ disk = << >>
                /\ listing = <<>>
    /\ Fresh

----------------------------------------------------------------------------
(* processWallets: the "tokens" option *)

\* if (!fs.existsSync(csvFilePath)) { console.error; rl.close(); return }
PW_FileMissing ==
    /\ option = "tokens" /\ pc = "start"
    /\ TokensCsv \notin DOMAIN disk
    /\ log' = Append(log, "csv_not_found")
    /\ rlClosed' = TRUE
    /\ pc' = "done"
    /\ UNCHANGED <<option, dirExists, disk, listing, source, csvFiles, fi, addresses,
                   ai, allWalletAddresses, addressSet, duplicateCount, mergedData,
                   headers, headerLine, fileName, addressChunks, ci, di, written, deleted,
                   readOk>>

\* await extractTokenAddresses() rejects (read error, or column not found):
\* the catch of processWallets reports and closes
PW_ExtractFails ==
    /\ option = "tokens" /\ pc = "start"
    /\ TokensCsv \in DOMAIN disk
    /\ \E readError \in BOOLEAN :
          /\ readError \/ ~extractTokenAddresses(disk[TokensCsv]).ok
          /\ readOk' = IF readError THEN readOk ELSE readOk \cup {1}
    /\ log' = Append(log, "error_processing")
    /\ rlClosed' = TRUE
    /\ pc' = "done"
    /\ UNCHANGED <<option, dirExists, disk, listing, source, csvFiles, fi, addresses,
                   ai, allWalletAddresses, addressSet, duplicateCount, mergedData,
                   headers, headerLine, fileName, addressChunks, ci, di, written, deleted>>

\* const tokenAddresses = await extractTokenAddresses()
PW_Extract ==
    /\ option = "tokens" /\ pc = "start"
    /\ TokensCsv \in DOMAIN disk
    /\ extractTokenAddresses(disk[TokensCsv]).ok
    /\ addresses' = extractTokenAddresses(disk[TokensCsv]).values
    /\ readOk' = readOk \cup {1}
    /\ pc' = "extracted"
    /\ UNCHANGED <<option, dirExists, disk, listing, source, csvFiles, fi, ai,
                   allWalletAddresses, addressSet, duplicateCount, mergedData, headers,
                   headerLine, fileName, addressChunks, ci, di, written, deleted, log,
                   rlClosed>>

\* (mutant) an empty result is not stopped: the run goes on to the prompt
PW_NoAddresses_PromptAnyway ==
    /\ option = "tokens" /\ pc = "extracted"
    /\ Len(addresses) = 0
    /\ log' = Append(log, "none_found")
    /\ pc' = "prompt"
    /\ UNCHANGED <<option, dirExists, disk, listing, source, csvFiles, fi, addresses,
                   ai, allWalletAddresses, addressSet, duplicateCount, mergedData,
                   headers, headerLine, fileName, addressChunks, ci, di, written, deleted,
                   readOk, rlClosed>>

\* if (tokenAddresses.length === 0) { console.log; rl.close(); return }
PW_NoAddresses ==
    /\ option = "tokens" /\ pc = "extracted"
    /\ Len(addresses) = 0
    /\ log' = Append(log, "none_found")
    /\ rlClosed' = TRUE
    /\ pc' = "done"
    /\ UNCHANGED <<option, dirExists, disk, listing, source, csvFiles, fi, addresses,
                   ai, allWalletAddresses, addressSet, duplicateCount, mergedData,
                   headers, headerLine, fileName, addressChunks, ci, di, written, deleted,
                   readOk>>

\* console.log(`Found ...`); rl.question(...)
PW_Prompt ==
    /\ option = "tokens" /\ pc = "extracted"
    /\ Len(addresses) # 0
    /\ log' = Append(log, "found")
    /\ pc' = "prompt"
    /\ UNCHANGED <<option, dirExists, disk, listing, source, csvFiles, fi, addresses,
                   ai, allWalletAddresses, addressSet, duplicateCount, mergedData,
                   headers, headerLine, fileName, addressChunks, ci, di, written, deleted,
                   readOk, rlClosed>>

\* the rl.question callback: name the file, write it (or fail), close
PW_Answer ==
    /\ option = "tokens" /\ pc = "prompt"
    /\ \E input \in TxtInputs, writeOk \in BOOLEAN :
          LET name == normalizeName(input, "token_addresses", ".txt")
          IN  /\ fileName' = name
              /\ IF writeOk
                 THEN /\ disk' = writeFile(disk, name, join(addresses, Newline))
                      /\ written' = Append(written, name)
                      /\ log' = Append(log, "saved")
                 ELSE /\ log' = Append(log, "write_error")
                      /\ UNCHANGED <<disk, written>>
    /\ rlClosed' = TRUE
    /\ pc' = "done"
    /\ UNCHANGED <<option, dirExists, listing, source, csvFiles, fi, addresses, ai,
                   allWalletAddresses, addressSet, duplicateCount, mergedData, headers,
                   headerLine, addressChunks, ci, di, deleted, readOk>>

NextTokens ==
    \/ PW_FileMissing
    \/ PW_ExtractFails
    \/ PW_Extract
    \/ PW_NoAddresses
    \/ PW_Prompt
    \/ PW_Answer

SpecTokens == InitTokens /\ [][NextTokens]_vars

----------------------------------------------------------------------------
(* Inputs of the "wallets" and "merge" runs *)

FileA == <<"a", ".csv">>
FileB == <<"B", ".CSV">>
Notes == <<"notes", ".txt">>
NotesText == <<"todo">>

\* the directory as fs.readdirSync lists it
Listings == { <<Notes>>, <<FileA, Notes>>, <<FileA, Notes, FileB>> }

Addrs == {"0x1", "0x2", "0x3", "0x4"}

\* data lines of a wallets file: an address, plain or quoted, or a blank line
WalletLines ==
    { <<"7", Comma, a>> : a \in Addrs }
    \cup { <<"7", Comma, Quote, "0x1", Quote>>, <<Space>> }

WalletHeader == <<"id", Comma, "wallet_address">>

\* a wallets file: the header and then the data lines
walletText(body) == join(<<WalletHeader>> \o body, Newline)

takeLines(body, n) == SubSeq(body, 1, IF n <= Len(body) THEN n ELSE Len(body))
dropLines(body, n) == SubSeq(body, (IF n <= Len(body) THEN n ELSE Len(body)) + 1, Len(body))

\* the two wallets files: the data lines of body, the first cut of them in
\* a.csv and the rest in B.CSV; a file may instead be one without the column
WalletDisks ==
    { [n \in {FileA, FileB, Notes} |->
          IF n = Notes THEN NotesText
          ELSE IF n = FileA
               THEN (IF fa = <<"table">> THEN walletText(takeLines(body, cut)) ELSE fa)
               ELSE (IF fb = <<"table">> THEN walletText(dropLines(body, cut))
                     ELSE fb)]
      : body \in SeqsUpTo(WalletLines, MaxWalletLines),
        cut \in 0..MaxWalletLines,
        fa \in ForeignTexts \cup {<<"table">>},
        fb \in ForeignTexts \cup {<<"table">>} }

\* lines of a merge file: text, text with blanks around it, the empty line
MergeLines == { <<"h", Comma, "k">>, <<Space, "r", Space>>, <<>> }

MergeTexts ==
    { join(ls, Newline) : ls \in SeqsUpTo(MergeLines, MaxMergeLines) \ {<<>>} }

\* what the user types at the prompt of the merge run
CsvInputs == { <<>>, <<"out">>, <<"out", ".csv">>, <<"a">> }

Range(f) == { f[x] : x \in DOMAIN f }

Restrict(f, S) == [x \in S |-> f[x]]

InitWallets ==
    /\ option = "wallets"
    /\ source = NoTable
    /\ \/ /\ dirExists = TRUE
          /\ listing \in Listings
          /\ \E d \in WalletDisks : disk = Restrict(d, Range(listing))
       \/ dirExists = FALSE /\ listing = <<>> /\ disk = << >>
    /\ Fresh

\* a merge directory with the listed files, the .csv ones holding merge texts
MergeDirectory ==
    /\ listing \in Listings
    /\ disk \in [Range(listing) -> MergeTexts \cup {NotesText}]
    /\ \A n \in Range(listing) : disk[n] = NotesText <=> n = Notes

InitMerge ==
    /\ option = "merge"
    /\ source = NoTable
    /\ \/ dirExists = TRUE /\ MergeDirectory
       \/ dirExists = FALSE /\ listing = <<>> /\ disk = << >>
    /\ Fresh

----------------------------------------------------------------------------
(* Steps shared by processTokens and mergeCSVFiles *)

\* fs.readdirSync(dir).filter(file => file.toLowerCase().endsWith('.csv'))
listCsvFiles == SelectSeq(listing, isCsvName)

\* if (!fs.existsSync(dir)) { console.error; rl.close(); return }
DirMissing(opt) ==
    /\ option = opt /\ pc = "start"
    /\ ~dirExists
    /\ log' = Append(log, "dir_not_found")
    /\ rlClosed' = TRUE
    /\ pc' = "done"
    /\ UNCHANGED <<option, dirExists, disk, listing, source, csvFiles, fi, addresses,
                   ai, allWalletAddresses, addressSet, duplicateCount, mergedData,
                   headers, headerLine, fileName, addressChunks, ci, di, written,
                   deleted, readOk>>

\* const csvFiles = ...; if (csvFiles.length === 0) { console.error; rl.close(); return }
ListFiles(opt) ==
    /\ option = opt /\ pc = "start"
    /\ dirExists
    /\ csvFiles' = listCsvFiles
    /\ IF Len(listCsvFiles) = 0
       THEN /\ log' = Append(log, "no_csv_files")
            /\ rlClosed' = TRUE
            /\ pc' = "done"
       ELSE /\ log' = Append(log, "found_files")
            /\ pc' = "files"
            /\ UNCHANGED rlClosed
    /\ UNCHANGED <<option, dirExists, disk, listing, source, fi, addresses, ai,
                   allWalletAddresses, addressSet, duplicateCount, mergedData, headers,
                   headerLine, fileName, addressChunks, ci, di, written, deleted,
                   readOk>>

\* one turn of "for (const csvFile of csvFiles) fs.unlinkSync(...)" inside its try:
\* the call returns, or throws and the catch ends the loop; then the closing
\* messages and rl.close()
RemoveSources(opt) ==
    /\ option = opt /\ pc = "removing"
    /\ IF di > Len(csvFiles)
       THEN /\ log' = log \o <<"removed", "completed">>
            /\ rlClosed' = TRUE
            /\ pc' = "done"
            /\ UNCHANGED <<disk, deleted, di>>
       ELSE \E unlinkOk \in BOOLEAN :
              IF unlinkOk /\ csvFiles[di] \in DOMAIN disk
              THEN /\ disk' = unlink(disk, csvFiles[di])
                   /\ deleted' = Append(deleted, csvFiles[di])
                   /\ di' = di + 1
                   /\ UNCHANGED <<log, rlClosed, pc>>
              ELSE /\ log' = log \o <<"remove_error", "completed">>
                   /\ rlClosed' = TRUE
                   /\ pc' = "done"
                   /\ UNCHANGED <<disk, deleted, di>>
    /\ UNCHANGED <<option, dirExists, listing, source, csvFiles, fi, addresses, ai,
                   allWalletAddresses, addressSet, duplicateCount, mergedData, headers,
                   headerLine, fileName, addressChunks, ci, written, readOk>>

----------------------------------------------------------------------------
(* processTokens: the "wallets" option *)

PT_DirMissing == DirMissing("wallets")

PT_ListFiles == ListFiles("wallets")

\* (mutant) the catch only reports: the loop goes on with the next file
PT_ExtractFails_Continue ==
    /\ option = "wallets" /\ pc = "files"
    /\ fi <= Len(csvFiles)
    /\ \E readError \in BOOLEAN :
          /\ readError \/ ~extractWalletAddresses(disk[csvFiles[fi]]).ok
          /\ readOk' = IF readError THEN readOk ELSE readOk \cup {fi}
    /\ log' = Append(log, "error_processing")
    /\ fi' = fi + 1
    /\ UNCHANGED <<option, pc, dirExists, disk, listing, source, csvFiles, addresses,
                   ai, allWalletAddresses, addressSet, duplicateCount, mergedData,
                   headers, headerLine, fileName, addressChunks, ci, di, written,
                   deleted, rlClosed>>

\* await extractWalletAddresses(csvFilePath) rejects (read error, or column not
\* found): catch, console.error, rl.close(), return
PT_ExtractFails ==
    /\ option = "wallets" /\ pc = "files"
    /\ fi <= Len(csvFiles)
    /\ \E readError \in BOOLEAN :
          /\ readError \/ ~extractWalletAddresses(disk[csvFiles[fi]]).ok
          /\ readOk' = IF readError THEN readOk ELSE readOk \cup {fi}
    /\ log' = Append(log, "error_processing")
    /\ rlClosed' = TRUE
    /\ pc' = "done"
    /\ UNCHANGED <<option, dirExists, disk, listing, source, csvFiles, fi, addresses,
                   ai, allWalletAddresses, addressSet, duplicateCount, mergedData,
                   headers, headerLine, fileName, addressChunks, ci, di, written,
                   deleted>>

\* const addresses = await extractWalletAddresses(csvFilePath)
PT_Extract ==
    /\ option = "wallets" /\ pc = "files"
    /\ fi <= Len(csvFiles)
    /\ extractWalletAddresses(disk[csvFiles[fi]]).ok
    /\ addresses' = extractWalletAddresses(disk[csvFiles[fi]]).values
    /\ ai' = 1
    /\ readOk' = readOk \cup {fi}
    /\ pc' = "addresses"
    /\ UNCHANGED <<option, dirExists, disk, listing, source, csvFiles, fi,
                   allWalletAddresses, addressSet, duplicateCount, mergedData, headers,
                   headerLine, fileName, addressChunks, ci, di, written, deleted, log,
                   rlClosed>>

\* (mutant) the set is never consulted: every address is kept
isDuplicate_Never(address) == FALSE

\* if (addressSet.has(address))
isDuplicate(address) == address \in addressSet

\* (mutant) the repeat is dropped without being counted
countDuplicate_Skip(count) == count

\* duplicateCount++
countDuplicate(count) == count + 1

\* one turn of "for (const address of addresses)": count the repeat or keep the
\* address; past the last address, on to the next file
PT_Address ==
    /\ option = "wallets" /\ pc = "addresses"
    /\ IF ai > Len(addresses)
       THEN /\ fi' = fi + 1
            /\ pc' = "files"
            /\ UNCHANGED <<ai, allWalletAddresses, addressSet, duplicateCount>>
       ELSE /\ IF isDuplicate(addresses[ai])
               THEN /\ duplicateCount' = countDuplicate(duplicateCount)
                    /\ UNCHANGED <<addressSet, allWalletAddresses>>
               ELSE /\ addressSet' = addressSet \cup {addresses[ai]}
                    /\ allWalletAddresses' = Append(allWalletAddresses, addresses[ai])
                    /\ UNCHANGED duplicateCount
            /\ ai' = ai + 1
            /\ UNCHANGED <<fi, pc>>
    /\ UNCHANGED <<option, dirExists, disk, listing, source, csvFiles, addresses,
                   mergedData, headers, headerLine, fileName, addressChunks, ci, di,
                   written, deleted, readOk, log, rlClosed>>

\* after the loop: nothing found -> report and close; else report the counts
\* and rl.question(...)
PT_AfterFiles ==
    /\ option = "wallets" /\ pc = "files"
    /\ fi > Len(csvFiles)
    /\ IF Len(allWalletAddresses) = 0
       THEN /\ log' = Append(log, "none_found")
            /\ rlClosed' = TRUE
            /\ pc' = "done"
       ELSE /\ log' = log \o <<"found", "removed_duplicates">>
            /\ pc' = "prompt"
            /\ UNCHANGED rlClosed
    /\ UNCHANGED <<option, dirExists, disk, listing, source, csvFiles, fi, addresses,
                   ai, allWalletAddresses, addressSet, duplicateCount, mergedData,
                   headers, headerLine, fileName, addressChunks, ci, di, written,
                   deleted, readOk>>

RECURSIVE chunksFrom_Overlap(_, _, _)
\* (mutant) slice(i, i + size + 1): each chunk runs one entry into the next
chunksFrom_Overlap(all, i, size) ==
    IF i >= Len(all) THEN <<>>
    ELSE LET last == IF i + size + 1 <= Len(all) THEN i + size + 1 ELSE Len(all)
         IN  <<SubSeq(all, i + 1, last)>> \o chunksFrom_Overlap(all, i + size, size)

RECURSIVE chunksFrom(_, _, _)
\* for (let i = 0; i < all.length; i += size) chunks.push(all.slice(i, i + size))
chunksFrom(all, i, size) ==
    IF i >= Len(all) THEN <<>>
    ELSE LET last == IF i + size <= Len(all) THEN i + size ELSE Len(all)
         IN  <<SubSeq(all, i + 1, last)>> \o chunksFrom(all, i + size, size)

RECURSIVE replaceFirst(_, _)
\* fileName.replace('.txt', ''): the first occurrence only
replaceFirst(name, ext) ==
    IF name = <<>> THEN <<>>
    ELSE IF Head(name) = ext THEN Tail(name)
    ELSE <<Head(name)>> \o replaceFirst(Tail(name), ext)

\* (mutant) addressChunks.length >= 1: a single chunk is numbered too
isSuffixed_Always(count) == count >= 1

\* whether the chunk names carry a number: addressChunks.length > 1
isSuffixed(count) == count > 1

\* addressChunks.length > 1 ? `${fileName.replace('.txt', '')}_${i + 1}.txt` : fileName
chunkFileName(name, i, count) ==
    IF isSuffixed(count)
    THEN replaceFirst(name, ".txt") \o <<"_", ToString(i), ".txt">>
    ELSE name

\* the rl.question callback, up to the first write: name, chunks, message
PT_Answer ==
    /\ option = "wallets" /\ pc = "prompt"
    /\ \E input \in TxtInputs :
          fileName' = normalizeName(input, "wallet_addresses", ".txt")
    /\ addressChunks' = chunksFrom(allWalletAddresses, 0, chunkSize)
    /\ ci' = 1
    /\ log' = Append(log, "splitting")
    /\ pc' = "writing"
    /\ UNCHANGED <<option, dirExists, disk, listing, source, csvFiles, fi, addresses,
                   ai, allWalletAddresses, addressSet, duplicateCount, mergedData,
                   headers, headerLine, di, written, deleted, readOk, rlClosed>>

\* one turn of the chunk loop: fs.writeFileSync returns, or throws and the catch
\* closes and returns; past the last chunk, on to the removal of the sources
PT_WriteChunk ==
    /\ option = "wallets" /\ pc = "writing"
    /\ IF ci > Len(addressChunks)
       THEN /\ pc' = "removing"
            /\ di' = 1
            /\ UNCHANGED <<disk, written, ci, log, rlClosed>>
       ELSE \E writeOk \in BOOLEAN :
              LET name == chunkFileName(fileName, ci, Len(addressChunks))
              IN  IF writeOk
                  THEN /\ disk' = writeFile(disk, name, join(addressChunks[ci], Newline))
                       /\ written' = Append(written, name)
                       /\ log' = Append(log, "saved")
                       /\ ci' = ci + 1
                       /\ UNCHANGED <<pc, di, rlClosed>>
                  ELSE /\ log' = Append(log, "write_error")
                       /\ rlClosed' = TRUE
                       /\ pc' = "done"
                       /\ UNCHANGED <<disk, written, ci, di>>
    /\ UNCHANGED <<option, dirExists, listing, source, csvFiles, fi, addresses, ai,
                   allWalletAddresses, addressSet, duplicateCount, mergedData, headers,
                   headerLine, fileName, addressChunks, deleted, readOk>>

PT_RemoveSources == RemoveSources("wallets")

NextWallets ==
    \/ PT_DirMissing
    \/ PT_ListFiles
    \/ PT_ExtractFails
    \/ PT_Extract
    \/ PT_Address
    \/ PT_AfterFiles
    \/ PT_Answer
    \/ PT_WriteChunk
    \/ PT_RemoveSources

SpecWallets == InitWallets /\ [][NextWallets]_vars

----------------------------------------------------------------------------
(* mergeCSVFiles: the "merge" option *)

MG_DirMissing == DirMissing("merge")

MG_ListFiles == ListFiles("merge")

\* (mutant) startLine is always 1: the first file's header is skipped too
startLine_SkipAlways(merged) == 1

\* const startLine = mergedData.length === 0 ? 0 : 1
startLine(merged) == IF Len(merged) = 0 THEN 0 ELSE 1

RECURSIVE pushLines(_, _, _)
\* for (let i = startLine; i < lines.length; i++) { trim; if (line) push }
pushLines(merged, lines, i) ==
    IF i >= Len(lines) THEN merged
    ELSE LET line == trim(lines[i + 1])
         IN  pushLines(IF line # <<>> THEN Append(merged, line) ELSE merged,
                       lines, i + 1)

\* (mutant) a failed read ends the run, as in processTokens
MG_File_AbortOnError ==
    /\ option = "merge" /\ pc = "files"
    /\ fi <= Len(csvFiles)
    /\ \E readError \in BOOLEAN :
          IF readError
          THEN /\ log' = Append(log, "error_processing")
               /\ rlClosed' = TRUE
               /\ pc' = "done"
               /\ UNCHANGED <<mergedData, headers, headerLine, readOk, fi>>
          ELSE LET lines == split(disk[csvFiles[fi]], Newline)
               IN  /\ headerLine' = IF Len(headers) = 0 THEN lines[1] ELSE headerLine
                   /\ headers' = IF Len(headers) = 0 THEN split(lines[1], Comma)
                                 ELSE headers
                   /\ mergedData' = pushLines(mergedData, lines, startLine(mergedData))
                   /\ readOk' = readOk \cup {fi}
                   /\ fi' = fi + 1
                   /\ UNCHANGED <<log, rlClosed, pc>>
    /\ UNCHANGED <<option, dirExists, disk, listing, source, csvFiles, addresses, ai,
                   allWalletAddresses, addressSet, duplicateCount, fileName,
                   addressChunks, ci, di, written, deleted>>

\* one turn of "for (const csvFile of csvFiles)": read, keep the header of the
\* first file read, push the lines; a failed read is caught and reported
MG_File ==
    /\ option = "merge" /\ pc = "files"
    /\ fi <= Len(csvFiles)
    /\ \E readError \in BOOLEAN :
          IF readError
          THEN /\ log' = Append(log, "error_processing")
               /\ UNCHANGED <<mergedData, headers, headerLine, readOk>>
          ELSE LET lines == split(disk[csvFiles[fi]], Newline)
               IN  /\ headerLine' = IF Len(headers) = 0 THEN lines[1] ELSE headerLine
                   /\ headers' = IF Len(headers) = 0 THEN split(lines[1], Comma)
                                 ELSE headers
                   /\ mergedData' = pushLines(mergedData, lines, startLine(mergedData))
                   /\ readOk' = readOk \cup {fi}
                   /\ UNCHANGED log
    /\ fi' = fi + 1
    /\ UNCHANGED <<option, pc, dirExists, disk, listing, source, csvFiles, addresses,
                   ai, allWalletAddresses, addressSet, duplicateCount, fileName,
                   addressChunks, ci, di, written, deleted, rlClosed>>

\* after the loop: if (mergedData.length === 0) { console.log; rl.close(); return }
\* else rl.question(...)
MG_AfterFiles ==
    /\ option = "merge" /\ pc = "files"
    /\ fi > Len(csvFiles)
    /\ IF Len(mergedData) = 0
       THEN /\ log' = Append(log, "no_data")
            /\ rlClosed' = TRUE
            /\ pc' = "done"
       ELSE /\ pc' = "prompt"
            /\ UNCHANGED <<log, rlClosed>>
    /\ UNCHANGED <<option, dirExists, disk, listing, source, csvFiles, fi, addresses,
                   ai, allWalletAddresses, addressSet, duplicateCount, mergedData,
                   headers, headerLine, fileName, addressChunks, ci, di, written,
                   deleted, readOk>>

\* the rl.question callback up to the write: fs.writeFileSync returns, and the
\* removal of the sources follows, or throws and the outer catch reports and
\* the callback closes
MG_Answer ==
    /\ option = "merge" /\ pc = "prompt"
    /\ \E input \in CsvInputs, writeOk \in BOOLEAN :
          LET name == normalizeName(input, "merged_data", ".csv")
          IN  /\ fileName' = name
              /\ IF writeOk
                 THEN /\ disk' = writeFile(disk, name, join(mergedData, Newline))
                      /\ written' = Append(written, name)
                      /\ log' = Append(log, "saved")
                      /\ di' = 1
                      /\ pc' = "removing"
                      /\ UNCHANGED rlClosed
                 ELSE /\ log' = Append(log, "write_error")
                      /\ rlClosed' = TRUE
                      /\ pc' = "done"
                      /\ UNCHANGED <<disk, written, di>>
    /\ UNCHANGED <<option, dirExists, listing, source, csvFiles, fi, addresses, ai,
                   allWalletAddresses, addressSet, duplicateCount, mergedData, headers,
                   headerLine, addressChunks, ci, deleted, readOk>>

MG_RemoveSources == RemoveSources("merge")

NextMerge ==
    \/ MG_DirMissing
    \/ MG_ListFiles
    \/ MG_File
    \/ MG_AfterFiles
    \/ MG_Answer
    \/ MG_RemoveSources

SpecMerge == InitMerge /\ [][NextMerge]_vars

----------------------------------------------------------------------------
(* The program: main() dispatches on the option *)

Init == InitTokens \/ InitWallets \/ InitMerge

Next == NextTokens \/ NextWallets \/ NextMerge

Spec == Init /\ [][Next]_vars

----------------------------------------------------------------------------
(* Claims about the column extractor *)

\* a value with one pair of enclosing double quotes removed
Unquoted(v) ==
    IF Len(v) >= 2 /\ Head(v) = Quote /\ v[Len(v)] = Quote
    THEN [i \in 1..(Len(v) - 2) |-> v[i + 1]]
    ELSE v

IsNonEmpty(v) == v # <<>>

\* the target column of the table, row by row, enclosing quotes removed
ColumnUnquoted == [i \in 1..Len(source.cells) |-> Unquoted(source.cells[i])]

TableExtracted == option = "tokens" /\ pc = "extracted" /\ source \in Tables

Content(row) ==
    [i \in 1..Len(row.items) |-> IF row.items[i] = EscapedQuote THEN Quote ELSE "x"]

\* the row has a field at the target's position
IsPresent(row) == ~(row.shape = "short" /\ source.pos = 1)

IsClosed(row) == row.shape # "open"

PresentRows == SelectSeq(source.rows, IsPresent)

\* a raw table whose quoted fields are all closed was extracted
RawExtracted ==
    /\ option = "tokens" /\ pc = "extracted" /\ source \in RawTables
    /\ \A i \in 1..Len(source.rows) : IsClosed(source.rows[i])

TokensExtracted == option = "tokens" /\ pc = "extracted"

\* the data lines of tokens.csv that are not blank
NonEmptyDataLines ==
    LET lines == split(disk[TokensCsv], Newline)
    IN  { i \in 2..Len(lines) : trim(lines[i]) # <<>> }

\* what the scanner collects at the target's position of a raw row: the
\* field, and behind an open quote the rest of the line with it
Collected(row) ==
    IF row.shape = "open" /\ source.pos = 0
    THEN Content(row) \o <<Comma, "1">>
    ELSE Content(row)

\* C13: the extractor never emits an empty string and emits at most one value
\* per data line: a line whose target field is empty after quote stripping,
\* or that is too short to have the target field, contributes nothing, so
\* there are at most as many values as non-empty data lines.
C13_AtMostOnePerLine ==
    TokensExtracted =>
        /\ \A i \in 1..Len(addresses) : addresses[i] # <<>>
        /\ Len(addresses) <= Cardinality(NonEmptyDataLines)
        /\ source \in RawTables =>
               addresses = SelectSeq([i \in 1..Len(PresentRows) |->
                                          Unquoted(Collected(PresentRows[i]))],
                                     IsNonEmpty)

\* two non-empty data lines, one value: the first line stops before the
\* target field, the second holds \"x\"
C13_Witness ==
    /\ TokensExtracted /\ source \in RawTables
    /\ source.pos = 1
    /\ Len(source.rows) = 2
    /\ source.rows[1].shape = "short"
    /\ source.rows[2].items = << EscapedQuote, <<"x">>, EscapedQuote >>
    /\ Cardinality(NonEmptyDataLines) = 2
    /\ addresses = << <<"x">> >>

----------------------------------------------------------------------------
(* Claims about processWallets, the single-file pipeline *)

TokensRun == option = "tokens"

\* the run ended without a value to write: no input file, or nothing extracted
NothingToWrite ==
    /\ TokensRun /\ pc = "done"
    /\ "csv_not_found" \in Range(log) \/ "none_found" \in Range(log)

\* the one write of the run: the extracted values, one per line, in order,
\* repeated values included, to a file that is not the input
WroteAddresses ==
    /\ pc = "done"
    /\ written = <<fileName>>
    /\ fileName # TokensCsv
    /\ addresses # <<>>
    /\ split(disk[fileName], Newline) = addresses

\* one step leaves tokens.csv as it was: present or absent, and its text
InputUntouched ==
    /\ TokensCsv \in DOMAIN disk' <=> TokensCsv \in DOMAIN disk
    /\ TokensCsv \in DOMAIN disk => disk'[TokensCsv] = disk[TokensCsv]
    /\ written' = written => disk' = disk

\* C11: processWallets writes the extracted values in extraction order with
\* repeated values kept (as many lines as values), writes nothing when no
\* value was extracted or tokens.csv is missing, and never deletes or
\* modifies tokens.csv.
C11_SingleFileOutput ==
    /\ [](TokensRun =>
            /\ deleted = <<>>
            /\ written # <<>> => WroteAddresses
            /\ NothingToWrite => written = <<>>)
    /\ [][TokensRun => InputUntouched]_vars

\* a value extracted twice is written twice, to "tokens.csv.txt", next to
\* the untouched tokens.csv
C11_Witness ==
    /\ TokensRun /\ pc = "done"
    /\ addresses = << <<"x">>, <<"x">> >>
    /\ fileName = <<"tokens", ".csv", ".txt">>
    /\ written = <<fileName>>
    /\ disk[fileName] = <<"x", Newline, "x">>
    /\ source \in Tables
    /\ disk[TokensCsv] = encodeTable(source, "token_address")

----------------------------------------------------------------------------
(* Claims about processTokens, the dedup pipeline *)

RECURSIVE Flatten(_)
Flatten(seqs) == IF seqs = <<>> THEN <<>> ELSE Head(seqs) \o Flatten(Tail(seqs))

\* the values extracted from the files the loop has finished, then the values
\* of the current file it has handled: every value handled so far, in order
HandledSoFar ==
    Flatten([j \in 1..(fi - 1) |-> extractWalletAddresses(disk[csvFiles[j]]).values])
    \o (IF pc = "addresses" THEN SubSeq(addresses, 1, ai - 1) ELSE <<>>)

\* the sources are still as they were read
SourcesIntact == option = "wallets" /\ pc # "start" /\ deleted = <<>>

FirstIndex(s, v) == CHOOSE i \in 1..Len(s) : s[i] = v /\ \A k \in 1..(i - 1) : s[k] # v

\* C2: the accumulated sequence holds no value twice, holds every value
\* extracted so far, and orders the values by their first occurrence.
C2_DedupFirstSeen ==
    SourcesIntact =>
        LET out == allWalletAddresses
        IN  /\ \A i, j \in 1..Len(out) : i # j => out[i] # out[j]
            /\ Range(out) = Range(HandledSoFar)
            /\ \A i, j \in 1..Len(out) :
                   i < j => FirstIndex(HandledSoFar, out[i]) < FirstIndex(HandledSoFar, out[j])
            /\ addressSet = Range(out)

\* 0x1 in both files, then 0x2 in the second: the repeat across files is dropped
C2_Witness ==
    /\ option = "wallets" /\ pc = "prompt"
    /\ fi = 3
    /\ HandledSoFar = << <<"0x1">>, <<"0x1">>, <<"0x2">> >>
    /\ allWalletAddresses = << <<"0x1">>, <<"0x2">> >>
    /\ duplicateCount = 1

\* C3: kept addresses plus duplicateCount is the number of values handled so
\* far, after each value and at the end.
C3_CountsAddUp ==
    SourcesIntact => Len(allWalletAddresses) + duplicateCount = Len(HandledSoFar)

\* in the middle of the second file, its first value a repeat already counted
C3_Witness ==
    /\ option = "wallets" /\ pc = "addresses" /\ fi = 2
    /\ ai = 2 /\ Len(addresses) = 2
    /\ duplicateCount = 1
    /\ Len(allWalletAddresses) = 1

Answered == option = "wallets" /\ pc \in {"writing", "removing", "done"} /\ fileName # <<>>

\* C4: every chunk has between 1 and chunkSize entries and the chunks, put
\* together in index order, are the deduplicated sequence.
C4_ChunksPartition ==
    Answered =>
        /\ \A i \in 1..Len(addressChunks) :
               Len(addressChunks[i]) >= 1 /\ Len(addressChunks[i]) <= chunkSize
        /\ Flatten(addressChunks) = allWalletAddresses

\* more entries than one chunk takes, the last chunk not full
C4_Witness ==
    /\ Answered
    /\ Len(allWalletAddresses) > chunkSize
    /\ Len(addressChunks) = 2
    /\ Len(addressChunks[2]) < chunkSize

\* every write of the run has returned
WritesDone == Answered /\ (pc = "removing" \/ "completed" \in Range(log))

HasSuffix(name, i) ==
    /\ Len(name) >= 3
    /\ SubSeq(name, Len(name) - 2, Len(name)) = <<"_", ToString(i), ".txt">>

ChunksNeeded == (Len(allWalletAddresses) + chunkSize - 1) \div chunkSize

\* C5: at most chunkSize entries: the one file written bears the user's name,
\* unnumbered; more: one file per chunk, the i-th ending in _i.txt, and no file
\* under the unnumbered name.
C5_ChunkNames ==
    Answered =>
        /\ IF Len(allWalletAddresses) <= chunkSize
           THEN \A i \in 1..Len(written) : written[i] = fileName
           ELSE \A i \in 1..Len(written) :
                    HasSuffix(written[i], i) /\ written[i] # fileName
        /\ Len(written) <= ChunksNeeded
        /\ WritesDone => Len(written) = ChunksNeeded
        /\ \A i \in 1..Len(written) :
               written[i] \in DOMAIN disk
               /\ disk[written[i]] = join(addressChunks[i], Newline)

\* one entry more than a chunk takes, written as out_1.txt and out_2.txt
C5_Witness ==
    /\ WritesDone
    /\ Len(allWalletAddresses) = chunkSize + 1
    /\ written = << <<"out", "_", "1", ".txt">>, <<"out", "_", "2", ".txt">> >>
    /\ <<"out", ".txt">> \notin DOMAIN disk

\* C9: once an extraction has failed the run is over: nothing later is read,
\* no prompt, no write, no removal, whatever was accumulated.
C9_ExtractFailureAborts ==
    (option = "wallets" /\ "error_processing" \in Range(log)) =>
        /\ pc = "done" /\ rlClosed
        /\ \A j \in readOk : j <= fi
        /\ "found" \notin Range(log)
        /\ fileName = <<>>
        /\ written = <<>> /\ deleted = <<>>
        /\ DOMAIN disk = Range(listing)

\* the second file lacks the column after the first gave addresses
C9_Witness ==
    /\ option = "wallets" /\ pc = "done"
    /\ "error_processing" \in Range(log)
    /\ fi = 2 /\ readOk = {1, 2}
    /\ Len(allWalletAddresses) = 2

----------------------------------------------------------------------------
(* Claims about mergeCSVFiles, the merge pipeline *)

LinesOf(j) == split(disk[csvFiles[j]], Newline)

\* the lines of file j from line index first (zero-based) on, trimmed, the
\* empty ones left out
NonEmptyLinesFrom(j, first) ==
    LET ls == LinesOf(j)
    IN  SelectSeq([i \in 1..(Len(ls) - first) |-> trim(ls[i + first])], IsNonEmpty)

DataLinesOf(j) == NonEmptyLinesFrom(j, 1)
AllLinesOf(j) == NonEmptyLinesFrom(j, 0)
HeaderOf(j) == trim(LinesOf(j)[1])

\* the non-empty data lines of the files of S, in listing order
DataLinesOfAll(S) ==
    Flatten([j \in 1..Len(csvFiles) |-> IF j \in S THEN DataLinesOf(j) ELSE <<>>])

AllFiles == 1..Len(csvFiles)

\* the first file of S that has a non-empty line at all
IsFirstWithText(g, S) ==
    /\ g \in S
    /\ AllLinesOf(g) # <<>>
    /\ \A k \in S : k < g => AllLinesOf(k) = <<>>

\* 1 when that file's first line is non-empty, 0 otherwise
HeaderKept(S) ==
    IF \E g \in S : IsFirstWithText(g, S) /\ HeaderOf(g) # <<>> THEN 1 ELSE 0

\* the output was written and no source has been removed yet
JustWritten == option = "merge" /\ pc = "removing" /\ di = 1

OutputLines == split(disk[fileName], Newline)

C7_AsStated ==
    (option = "merge" /\ written = <<>> /\ csvFiles # <<>>
        /\ DataLinesOfAll(AllFiles) = <<>>) =>
        /\ pc \in {"files", "done"}
        /\ pc = "done" => "no_data" \in Range(log)
        /\ fileName = <<>> /\ deleted = <<>>

SomeReadFailed == option = "merge" /\ "error_processing" \in Range(log)

\* the header of the first file of S, then the data lines of the files of S
StatedMerged(S) ==
    IF S = {} THEN <<>>
    ELSE LET first == CHOOSE g \in S : \A k \in S : g <= k
         IN  <<HeaderOf(first)>> \o DataLinesOfAll(S)

\* every non-empty line of the first file of S that has one, then the data
\* lines of the files of S after it
KeptMerged(S) ==
    Flatten([j \in 1..Len(csvFiles) |->
                IF j \notin S THEN <<>>
                ELSE IF \A k \in S : k < j => AllLinesOf(k) = <<>> THEN AllLinesOf(j)
                ELSE DataLinesOf(j)])

Consumed == { csvFiles[j] : j \in readOk }

\* C14 as stated: every source file the merge deletes after the write was
\* consumed (its read returned, so its data lines are in the output); a file
\* whose read failed is not deleted.
C14_AsStated ==
    option = "merge" => \A k \in 1..Len(deleted) : deleted[k] \in Consumed

\* C15 as stated: whatever name the user enters, a merge run that ends after
\* its write returned leaves the output file in the directory, holding the
\* merged lines; the removal of the sources never removes the file just
\* written, also when its name is a source's name.
C15_AsStated ==
    (option = "merge" /\ written # <<>>) =>
        /\ fileName \notin Range(deleted)
        /\ pc = "done" =>
               /\ fileName \in DOMAIN disk
               /\ split(disk[fileName], Newline) = mergedData

\* what the removal does delete: the listed sources, in listing order,
\* whether or not their read returned
C14_DeletesListedSources ==
    option = "merge" =>
        /\ Len(deleted) <= Len(csvFiles)
        /\ \A k \in 1..Len(deleted) : deleted[k] = csvFiles[k]

\* the output of C15 is kept whenever its name is no source's name
C15_OtherNameKeepsOutput ==
    (option = "merge" /\ written # <<>> /\ fileName \notin Range(csvFiles)) =>
        /\ fileName \notin Range(deleted)
        /\ fileName \in DOMAIN disk
        /\ split(disk[fileName], Newline) = mergedData

----------------------------------------------------------------------------
(* Claims about both pipelines *)

Removing == option \in {"wallets", "merge"}

AllWritesDone ==
    /\ "write_error" \notin Range(log)
    /\ IF option = "wallets" THEN Len(written) = Len(addressChunks) /\ written # <<>>
       ELSE Len(written) = 1

\* C8: a source is removed only after every write of the run has returned; a
\* failed write ends the run with no further write and no removal; a failed
\* removal leaves every written output where it is.
C8_AsStated ==
    Removing =>
        /\ deleted # <<>> => AllWritesDone
        /\ "write_error" \in Range(log) =>
               /\ pc = "done" /\ deleted = <<>>
               /\ DOMAIN disk = Range(listing) \cup Range(written)
               /\ option = "wallets" => ci = Len(written) + 1
        /\ "remove_error" \in Range(log) =>
               \A n \in Range(written) : n \in DOMAIN disk

\* the first two clauses of C8 alone
C8_WritesBeforeRemovals ==
    Removing =>
        /\ deleted # <<>> => AllWritesDone
        /\ "write_error" \in Range(log) =>
               /\ pc = "done" /\ deleted = <<>>
               /\ DOMAIN disk = Range(listing) \cup Range(written)
               /\ option = "wallets" => ci = Len(written) + 1

\* the last clause of C8 where the output bears no source's name
C8_RemovalFailureKeepsOutputs ==
    (Removing /\ "remove_error" \in Range(log) /\ fileName \notin Range(csvFiles)) =>
        \A n \in Range(written) : n \in DOMAIN disk

====
